---- MODULE Spec2Model ----
(***************************************************************************)
(* Model of the Brightwheel -> Nara transfer tool.                         *)
(*                                                                         *)
(* Python values are modelled as follows.                                  *)
(*   - a str that the code inspects (names) is a sequence of one-character *)
(*     strings, so that split() and lower() are computed, not assumed;     *)
(*     opaque strs (ids, enum values) are TLA+ strings;                    *)
(*   - a dict is a function whose DOMAIN is the set of keys present;       *)
(*   - a datetime is a record [day, second, utcoffset] of its wall-clock   *)
(*     fields and its tzinfo: utcoffset is <<>> for a naive datetime and   *)
(*     <<seconds>> for an aware one; .date() keeps the day;                *)
(*   - an ISO-8601 timestamp string is a record [second, utcoffset]: the   *)
(*     wall-clock second it writes (>= 0) and the UTC offset it carries    *)
(*     (<<>> when it carries none); second -1 stands for a string that     *)
(*     datetime.fromisoformat rejects and -2 for "";                       *)
(*   - an exception is a record [type, status] (status 0 when the          *)
(*     exception carries no HTTP status);                                  *)
(*   - the bool returned by transfer_activity is "True" / "False".         *)
(* The reads of the two remote services and the browser login are black    *)
(* boxes: each call returns one of the responses enumerated at the call.   *)
(* The write, create_generic_activity, is modelled up to the request it    *)
(* builds: its JSON body holds a datetime, so building it raises TypeError *)
(* and no request is sent.                                                 *)
(***************************************************************************)
EXTENDS Integers, Sequences, FiniteSets, TLC

VARIABLES
    env,                  \* environment configuration read by Settings
    args,                 \* parsed command line (argparse namespace)
    cli_settings,         \* the Settings object held by main() in __init__.py
    settings,             \* DataTransfer.settings
    pc,                   \* position in main() / DataTransfer.run()
    bw_session,           \* BrightwheelClient.session: "none" | "valid" | "expired"
    access_token,         \* NaraClient.access_token ("" when unset)
    students,             \* run(): students
    babies,               \* run(): babies
    student_baby_mapping, \* run(): student_baby_mapping
    si,                   \* run(): position of the student loop (1-based)
    activities,           \* sync_student_activities(): activities
    bi,                   \* sync_student_activities(): i of the batch loop (0-based)
    tasks,                \* the tasks of the current asyncio.gather
    stats,                \* sync_student_activities(): stats
    total_stats,          \* run(): total_stats
    summary,              \* the logged TRANSFER COMPLETE summary (<<>> until logged)
    errors,               \* ErrorLogger.errors
    ops,                  \* number of calls made to each client operation
    error,                \* the exception that reached run()'s except clause
    exit_code,            \* process exit status (-1 while running)
    rw,                   \* one retry_with_backoff call taken alone (retry specification)
    rw_calls              \* what each func() call of rw answered, in call order

vars == <<env, args, cli_settings, settings, pc, bw_session, access_token,
          students, babies, student_baby_mapping, si, activities, bi, tasks,
          stats, total_stats, summary, errors, ops, error, exit_code, rw, rw_calls>>

----------------------------------------------------------------------------
(* Bounds of the model *)

\* longest activity list a get_activities response carries
MaxActivities == 2
\* largest max_retries explored by the retry specification
MaxRetries == 3
\* longest roster explored by the reconciliation specification
MaxRoster == 2

----------------------------------------------------------------------------
(* Generic helpers *)

Min(a, b) == IF a < b THEN a ELSE b

\* dict.get(key, default)
Get(d, k, default) == IF k \in DOMAIN d THEN d[k] ELSE default

\* the number of positions of a sequence satisfying a test
RECURSIVE CountWhere(_, _)
CountWhere(s, v) ==
    IF s = <<>> THEN 0
    ELSE (IF Head(s) = v THEN 1 ELSE 0) + CountWhere(Tail(s), v)

NoException == [type |-> "None", status |-> 0]
Exc(t) == [type |-> t, status |-> 0]
HTTPStatusError(code) == [type |-> "HTTPStatusError", status |-> code]

----------------------------------------------------------------------------
(* config.py: Settings and get_settings *)

\* batch_size values the environment may configure (the code never guards it;
\* the claims are about batch_size >= 1)
BatchSizes == {1, 2}

\* retry_max_attempts values the environment may configure (nothing in
\* Settings keeps it non-negative)
RetryCounts == {-1, 0, 1}

\* (NARA_EMAIL, NARA_PASSWORD) pairs the environment may hold ("" is unset)
NaraCredentials == { <<"", "">>, <<"user@example.com", "">>, <<"user@example.com", "secret">> }

Environments ==
    [ BRIGHTWHEEL_SESSION_COOKIE : {"", "cookie"},
      NARA : NaraCredentials,
      BATCH_SIZE : BatchSizes,
      RETRY_MAX_ATTEMPTS : RetryCounts,
      RETRY_DELAY_SECONDS : {1},
      DRY_RUN : BOOLEAN ]

\* get_settings(): a NEW Settings object built from the environment on every call
get_settings(e) ==
    [ brightwheel_session_cookie |-> e.BRIGHTWHEEL_SESSION_COOKIE,
      nara_email |-> e.NARA[1],
      nara_password |-> e.NARA[2],
      batch_size |-> e.BATCH_SIZE,
      retry_max_attempts |-> e.RETRY_MAX_ATTEMPTS,
      retry_delay_seconds |-> e.RETRY_DELAY_SECONDS,
      dry_run |-> e.DRY_RUN ]

\* the state of a Settings object nobody has constructed yet
NoSettings == [ unset |-> TRUE ]

----------------------------------------------------------------------------
(* Strings, as sequences of characters *)

Str_Ava == <<"A", "v", "a">>
Str_AVA == <<"A", "V", "A">>
Str_Ben == <<"B", "e", "n">>
Str_AvaSmith == <<"A", "v", "a", " ", "S", "m", "i", "t", "h">>
Str_avaJones == <<"a", "v", "a", " ", " ", "J", "o", "n", "e", "s">>
Str_AvaLee == <<" ", "A", "v", "a", " ", "L", "e", "e">>
Str_BenKim == <<"B", "e", "n", " ", "K", "i", "m">>
Str_Empty == <<>>
Str_Blank == <<" ", " ">>

IsSpace(c) == c = " "

\* str.lower() on one character of the alphabet the names use
LowerChar(c) ==
    CASE c = "A" -> "a"
      [] c = "B" -> "b"
      [] c = "J" -> "j"
      [] c = "K" -> "k"
      [] c = "L" -> "l"
      [] c = "S" -> "s"
      [] c = "V" -> "v"
      [] OTHER -> c

\* str.lower()
Lower(s) == [i \in DOMAIN s |-> LowerChar(s[i])]

\* str.split(): the maximal runs of non-whitespace characters, in order
RECURSIVE SplitFrom(_, _, _)
SplitFrom(s, cur, acc) ==
    IF s = <<>>
    THEN (IF cur = <<>> THEN acc ELSE Append(acc, cur))
    ELSE IF IsSpace(Head(s))
         THEN SplitFrom(Tail(s), <<>>, IF cur = <<>> THEN acc ELSE Append(acc, cur))
         ELSE SplitFrom(Tail(s), Append(cur, Head(s)), acc)

Split(s) == SplitFrom(s, <<>>, <<>>)

\* datetime.date()
Date(dt) == dt.day

----------------------------------------------------------------------------
(* transfer.py: DataTransfer.map_students_to_babies *)

\* the condition of the inner loop, for a baby whose name has a first token
Matches(student, baby) ==
    /\ Lower(student.first_name) = Lower(Split(baby.name)[1])
    /\ Date(student.birthdate) = Date(baby.birth_date)

\* the inner loop "for baby in babies" from position j: the first match breaks;
\* baby.name.split()[0] raises IndexError on a name without any token
RECURSIVE ScanBabies(_, _, _)
ScanBabies(student, bs, j) ==
    IF j > Len(bs) THEN [tag |-> "nomatch"]
    ELSE IF Split(bs[j].name) = <<>> THEN [tag |-> "raise", exc |-> Exc("IndexError")]
    ELSE IF Matches(student, bs[j]) THEN [tag |-> "match", id |-> bs[j].id]
    ELSE ScanBabies(student, bs, j + 1)

\* the outer loop "for student in students" from position i with the mapping so far
RECURSIVE MapFrom(_, _, _, _)
MapFrom(ss, bs, i, mapping) ==
    IF i > Len(ss) THEN [tag |-> "ok", mapping |-> mapping]
    ELSE LET r == ScanBabies(ss[i], bs, 1) IN
         IF r.tag = "raise" THEN r
         ELSE IF r.tag = "match"
              THEN MapFrom(ss, bs, i + 1, (ss[i].id :> r.id) @@ mapping)
              ELSE MapFrom(ss, bs, i + 1, mapping)

EmptyMapping == [x \in {} |-> ""]

\* the mapping built the wrong way round: keyed by the baby's id
map_students_to_babies_Inverse(ss, bs) ==
    LET r == MapFrom(ss, bs, 1, EmptyMapping) IN
    IF r.tag = "raise" THEN r
    ELSE [tag |-> "ok",
          mapping |-> [b \in {r.mapping[x] : x \in DOMAIN r.mapping} |->
                          CHOOSE x \in DOMAIN r.mapping : r.mapping[x] = b]]

map_students_to_babies(ss, bs) == MapFrom(ss, bs, 1, EmptyMapping)

----------------------------------------------------------------------------
(* utils/transformers.py *)

\* Python None where a str is expected
None == "<None>"

\* a JSON number that may be null is a sequence: <<n>> is n and <<>> is null
Null == <<>>
Num(n) == <<n>>
IsNull(v) == v = <<>>

Ok(v) == [tag |-> "ok", value |-> v]
Raise(e) == [tag |-> "raise", exc |-> e]

SecondsPerDay == 86400

\* An ISO timestamp string without UTC offset ("1970-01-01T08:00:00" is
\* Naive(28800)): second counts the wall-clock seconds it writes
Naive(second) == [second |-> second, utcoffset |-> Null]

\* An ISO timestamp string with a UTC offset ("1970-01-01T09:00:00+01:00" is
\* Aware(32400, 3600))
Aware(second, offset) == [second |-> second, utcoffset |-> Num(offset)]

\* a string fromisoformat rejects, and ""
NotIso == Naive(-1)
EmptyString == Naive(-2)

\* bool(v) of an optional timestamp string: None and "" are falsy
Truthy(v) == ~IsNull(v) /\ v # Num(EmptyString)

\* datetime.fromisoformat(d[key]): KeyError when the key is absent, ValueError
\* when the string is no ISO timestamp; the datetime is aware exactly when the
\* string carries an offset
FromIsoKey(d, key) ==
    IF key \notin DOMAIN d THEN Raise(Exc("KeyError"))
    ELSE IF d[key].second < 0 THEN Raise(Exc("ValueError"))
    ELSE Ok([day |-> d[key].second \div SecondsPerDay,
             second |-> d[key].second % SecondsPerDay,
             utcoffset |-> d[key].utcoffset])

\* seconds since the origin of a parsed datetime: its wall-clock fields, moved
\* to UTC when it is aware
Instant(dt) ==
    dt.day * SecondsPerDay + dt.second
        - (IF IsNull(dt.utcoffset) THEN 0 ELSE dt.utcoffset[1])

\* (end_time - start_time).total_seconds(): datetime.__sub__ raises TypeError
\* when one operand is naive and the other aware
Subtract(end_time, start_time) ==
    IF IsNull(end_time.utcoffset) # IsNull(start_time.utcoffset)
    THEN Raise(Exc("TypeError"))
    ELSE Ok(Instant(end_time) - Instant(start_time))

\* int(x / y) for y > 0: Python's int() truncates toward zero
TruncDiv(x, y) == IF x >= 0 THEN x \div y ELSE -((-x) \div y)

\* diaper_map.get(diaper_type, DiaperStatus.WET)
DiaperStatusOf(diaper_type) ==
    CASE diaper_type = "wet" -> "wet"
      [] diaper_type = "bm" -> "dirty"
      [] diaper_type = "wet_bm" -> "both"
      [] diaper_type = "dry" -> "dry"
      [] OTHER -> "wet"

transform_diaper_activity(a) ==
    LET ts == FromIsoKey(a, "timestamp") IN
    IF ts.tag = "raise" THEN ts
    ELSE Ok([ baby_id |-> "",
              activity_type |-> "diaper",
              timestamp |-> ts.value,
              status |-> DiaperStatusOf(Get(a, "diaper_type", "wet")),
              cream_applied |-> Get(a, "has_cream", FALSE),
              notes |-> Get(a, "notes", None) ])

\* 29.5735 ml per ounce, in units of 1/10000 ml
MlPerOzE4 == 295735

transform_bottle_activity(a) ==
    LET bottle_type == Get(a, "bottle_type", "milk")
        feeding_type == IF bottle_type = "formula" THEN "formula"
                        ELSE IF bottle_type = "pumped" THEN "pumped"
                        ELSE "bottle"
        amount_oz == Get(a, "amount_oz", Num(0))
    IN  \* None * 29.5735 raises TypeError before the record is built
        IF IsNull(amount_oz) THEN Raise(Exc("TypeError"))
        ELSE LET ts == FromIsoKey(a, "timestamp") IN
             IF ts.tag = "raise" THEN ts
             ELSE Ok([ baby_id |-> "",
                       activity_type |-> "feeding",
                       timestamp |-> ts.value,
                       feeding_type |-> feeding_type,
                       amount_ml_e4 |-> Num(amount_oz[1] * MlPerOzE4),
                       notes |-> Get(a, "notes", None) ])

transform_food_activity(a) ==
    LET ts == FromIsoKey(a, "timestamp") IN
    IF ts.tag = "raise" THEN ts
    ELSE Ok([ baby_id |-> "",
              activity_type |-> "feeding",
              timestamp |-> ts.value,
              feeding_type |-> "solid",
              food_items |-> Get(a, "foods", <<>>),
              notes |-> << Get(a, "meal_type", "meal"), ": ",
                           Get(a, "amount_eaten", "some"), " eaten. ",
                           Get(a, "notes", "") >> ])

transform_nap_activity(a) ==
    LET st == FromIsoKey(a, "start_time") IN
    IF st.tag = "raise" THEN st
    \* "if brightwheel_activity.get('end_time')": a truthiness test
    ELSE IF Truthy(Get(a, "end_time", Null))
    THEN LET en == FromIsoKey([end_time |-> a["end_time"][1]], "end_time") IN
         IF en.tag = "raise" THEN en
         ELSE LET delta == Subtract(en.value, st.value) IN
              IF delta.tag = "raise" THEN delta
              ELSE Ok([ baby_id |-> "",
                        activity_type |-> "sleep",
                        timestamp |-> st.value,
                        sleep_type |-> "nap",
                        start_time |-> st.value,
                        end_time |-> <<en.value>>,
                        duration_minutes |-> Num(TruncDiv(delta.value, 60)),
                        notes |-> Get(a, "notes", None) ])
    ELSE Ok([ baby_id |-> "",
              activity_type |-> "sleep",
              timestamp |-> st.value,
              sleep_type |-> "nap",
              start_time |-> st.value,
              end_time |-> Null,
              duration_minutes |->
                  \* "elif get('duration_minutes')": null and 0 are both falsy
                  (LET d == Get(a, "duration_minutes", Null) IN
                   IF IsNull(d) \/ d = Num(0) THEN Null ELSE d),
              notes |-> Get(a, "notes", None) ])

\* temperatures in units of 1/10 degree; the default 98.6 F is 986
DefaultTempFE1 == 986

transform_temperature_activity(a) ==
    LET temp_f == Get(a, "temperature_f", Num(DefaultTempFE1)) IN
    \* (None - 32) raises TypeError before the record is built
    IF IsNull(temp_f) THEN Raise(Exc("TypeError"))
    ELSE LET ts == FromIsoKey(a, "timestamp") IN
         IF ts.tag = "raise" THEN ts
         ELSE Ok([ baby_id |-> "",
                   activity_type |-> "health",
                   timestamp |-> ts.value,
                   \* (F - 32) * 5 / 9 as the exact fraction <<numerator, denominator>>
                   temperature_celsius_e1 |-> << (temp_f[1] - 320) * 5, 9 >>,
                   notes |-> << "Temperature taken via ", Get(a, "method", "forehead"),
                                ". ", Get(a, "notes", "") >> ])

transform_photo_activity(a) ==
    LET photo_urls == Get(a, "photo_urls", <<>>)
        caption == Get(a, "caption", None)
        ts == FromIsoKey(a, "timestamp")
    IN  IF ts.tag = "raise" THEN ts
        ELSE Ok([ baby_id |-> "",
                  activity_type |-> "photo",
                  timestamp |-> ts.value,
                  photo_url |-> IF photo_urls # <<>> THEN photo_urls[1] ELSE "",
                  caption |-> IF caption # None /\ caption # ""
                              THEN caption ELSE Get(a, "notes", None) ])

\* the keys of the transformers table
SupportedKinds == {"diaper", "bottle", "food", "nap", "temperature", "photo"}

\* transform_activity with a default transformer for the kinds it does not know
transform_activity_DefaultDiaper(a) ==
    LET activity_type == Get(a, "activity_type", None) IN
    CASE activity_type = "bottle" -> transform_bottle_activity(a)
      [] activity_type = "food" -> transform_food_activity(a)
      [] activity_type = "nap" -> transform_nap_activity(a)
      [] activity_type = "temperature" -> transform_temperature_activity(a)
      [] activity_type = "photo" -> transform_photo_activity(a)
      [] OTHER -> transform_diaper_activity(a)

\* transform_activity: [tag |-> "none"] is the None returned for a kind without
\* a transformer (or no kind at all)
transform_activity(a) ==
    LET activity_type == Get(a, "activity_type", None) IN
    CASE activity_type = "diaper" -> transform_diaper_activity(a)
      [] activity_type = "bottle" -> transform_bottle_activity(a)
      [] activity_type = "food" -> transform_food_activity(a)
      [] activity_type = "nap" -> transform_nap_activity(a)
      [] activity_type = "temperature" -> transform_temperature_activity(a)
      [] activity_type = "photo" -> transform_photo_activity(a)
      [] OTHER -> [tag |-> "none"]

----------------------------------------------------------------------------
(* utils/errors.py: retry_with_backoff and ErrorLogger *)

\* retry_with_backoff up to its first suspension: the first func() call, or the
\* end of the function when range(max_retries + 1) is empty (last_exception is
\* still None, so nothing is raised and None is returned)
retry_begin(max_retries, initial_delay, backoff_factor) ==
    [ max_retries |-> max_retries,
      initial_delay |-> initial_delay,
      backoff_factor |-> backoff_factor,
      delay |-> initial_delay,
      attempt |-> 0,
      last_exception |-> NoException,
      calls |-> IF max_retries + 1 > 0 THEN 1 ELSE 0,
      sleeps |-> <<>>,
      st |-> IF max_retries + 1 > 0 THEN "calling" ELSE "returned" ]

\* func() returned, and the loop goes on to sleep and call again
retry_on_return_Again(r) ==
    IF r.attempt < r.max_retries
    THEN [r EXCEPT !.st = "sleeping", !.sleeps = Append(@, r.delay)]
    ELSE [r EXCEPT !.st = "returned"]

\* "return await func()" when func() returns
retry_on_return(r) == [r EXCEPT !.st = "returned"]

\* the except clause with "attempt <= max_retries": one retry too many
retry_on_exception_OneMore(r, e) ==
    IF r.attempt <= r.max_retries
    THEN [r EXCEPT !.last_exception = e, !.st = "sleeping",
                   !.sleeps = Append(@, r.delay)]
    ELSE [r EXCEPT !.last_exception = e, !.st = "raised"]

\* "except exceptions as e": sleep when attempts remain, else leave the loop and
\* raise last_exception
retry_on_exception(r, e) ==
    IF r.attempt < r.max_retries
    THEN [r EXCEPT !.last_exception = e, !.st = "sleeping",
                   !.sleeps = Append(@, r.delay)]
    ELSE [r EXCEPT !.last_exception = e, !.st = "raised"]

\* the wake-up with a delay that grows by addition instead of multiplication
retry_on_wake_Additive(r) ==
    [r EXCEPT !.delay = @ + r.backoff_factor, !.attempt = @ + 1,
              !.calls = @ + 1, !.st = "calling"]

\* asyncio.sleep(delay) returns: delay *= backoff_factor, next iteration calls func()
retry_on_wake(r) ==
    [r EXCEPT !.delay = @ * r.backoff_factor, !.attempt = @ + 1,
              !.calls = @ + 1, !.st = "calling"]

\* the default backoff_factor=2.0 of retry_with_backoff
DefaultBackoffFactor == 2

\* log_error dropping the caller's context
log_error_NoContext(ledger, activity_id, activity_type, e, context) ==
    Append(ledger, [ activity_id |-> activity_id,
                     activity_type |-> activity_type,
                     error |-> e,
                     error_type |-> e.type,
                     context |-> [baby_id |-> ""] ])

\* ErrorLogger.log_error
log_error(ledger, activity_id, activity_type, e, context) ==
    Append(ledger, [ activity_id |-> activity_id,
                     activity_type |-> activity_type,
                     error |-> e,
                     error_type |-> e.type,
                     context |-> context ])

\* ErrorLogger.get_errors
get_errors(ledger) == ledger

\* ErrorLogger.clear_errors: "self.errors.clear()". run() never calls it.
clear_errors(ledger) == <<>>

\* ErrorLogger.has_errors
has_errors(ledger) == Len(ledger) > 0

\* ErrorLogger.get_error_summary: the number of entries of each error type
get_error_summary(ledger) ==
    [ ty \in {ledger[i].error_type : i \in DOMAIN ledger} |->
        Cardinality({i \in DOMAIN ledger : ledger[i].error_type = ty}) ]

----------------------------------------------------------------------------
(* Remote responses the model enumerates *)

Student(id, first_name, day) ==
    [id |-> id, first_name |-> first_name, birthdate |-> [day |-> day, second |-> 0, utcoffset |-> Null]]

Baby(id, name, day, second) ==
    [id |-> id, name |-> name, birth_date |-> [day |-> day, second |-> second, utcoffset |-> Null]]

\* rosters a get_students response may carry
StudentRosters ==
    { <<>>,
      << Student("s1", Str_Ava, 1) >>,
      << Student("s2", Str_Ben, 2), Student("s1", Str_Ava, 1) >> }

\* rosters a get_babies response may carry
BabyRosters ==
    { <<>>,
      << Baby("b1", Str_AvaSmith, 1, 3600) >>,
      << Baby("b2", Str_BenKim, 2, 0), Baby("b1", Str_avaJones, 1, 0) >>,
      << Baby("b3", Str_Blank, 1, 0) >>,
      << Baby("b4", Str_AvaLee, 2, 0) >> }

Act_Diaper ==
    [id |-> "a1", activity_type |-> "diaper", timestamp |-> Naive(28800), diaper_type |-> "wet_bm"]
Act_Mood ==
    [id |-> "a2", activity_type |-> "mood", timestamp |-> Naive(30000)]
Act_BottleNull ==
    [id |-> "a3", activity_type |-> "bottle", timestamp |-> Naive(32000), amount_oz |-> Null]

\* activity dicts a get_activities response may carry
RunActivities == {Act_Diaper, Act_Mood, Act_BottleNull}

\* the sequences over S of length at most n
SeqUpTo(S, n) == UNION { [1..m -> S] : m \in 0..n }

ActivityLists == SeqUpTo(RunActivities, MaxActivities)

\* exceptions the operation handed to retry_with_backoff may raise
FuncFailures == { Exc("TypeError"), HTTPStatusError(503) }

\* what the HTTP layer can answer to a GET or a login, besides success
ReadFailures == { HTTPStatusError(401), HTTPStatusError(500) }

----------------------------------------------------------------------------
(* api/nara_client.py: NaraClient.create_generic_activity *)

\* json.dumps(body), which http_client.post(json=body) runs while it builds the
\* request: a datetime is not JSON serializable, and model_dump() leaves the
\* timestamp of every record a datetime, so the body is never encoded
json_dumps(body) ==
    IF "timestamp" \in DOMAIN body THEN Raise(Exc("TypeError")) ELSE Ok(body)

\* NaraClient._check_auth: ValueError when the client holds no access token
check_auth(self) ==
    IF self.access_token = "" THEN Raise(Exc("ValueError")) ELSE Ok(None)

\* the NaraClient of the DataTransfer, as far as its operations read it
nara_client == [access_token |-> access_token]

\* the call that keeps a baby id the caller already put in the payload
create_generic_activity_KeepCallerId(self, baby_id, activity) ==
    IF check_auth(self).tag = "raise"
    THEN [ path_baby_id |-> None, json |-> activity, outcome |-> check_auth(self) ]
    ELSE LET body == IF activity.baby_id # "" THEN activity
                     ELSE [activity EXCEPT !.baby_id = baby_id]
         IN [ path_baby_id |-> baby_id, json |-> body, outcome |-> json_dumps(body) ]

\* create_generic_activity up to its await: _check_auth(), then
\* "activity['baby_id'] = baby_id", then post() is handed the path
\* /babies/{baby_id}/activities and the activity as json. json is the caller's
\* dict after the call, path_baby_id the id in the path (None when post() is
\* not reached) and outcome how the call ends before it awaits
create_generic_activity(self, baby_id, activity) ==
    IF check_auth(self).tag = "raise"
    THEN [ path_baby_id |-> None, json |-> activity, outcome |-> check_auth(self) ]
    ELSE LET body == [activity EXCEPT !.baby_id = baby_id]
         IN [ path_baby_id |-> baby_id, json |-> body, outcome |-> json_dumps(body) ]

----------------------------------------------------------------------------
(* transfer.py: DataTransfer.transfer_activity *)

NoRetry ==
    [ max_retries |-> 0, initial_delay |-> 0, backoff_factor |-> 0, delay |-> 0, attempt |-> 0,
      last_exception |-> NoException, calls |-> 0, sleeps |-> <<>>, st |-> "unused" ]

\* create_generic_activity raises e inside retry_with_backoff: the task sleeps
\* when attempts remain; else e leaves the retry loop, the except clause of
\* transfer_activity catches it and the task returns False
transfer_activity_on_exception(t, e) ==
    LET r == retry_on_exception(t.retry, e) IN
    IF r.st = "raised"
    THEN [t EXCEPT !.retry = r, !.result = "False", !.exc = r.last_exception]
    ELSE [t EXCEPT !.retry = r]

\* the lambda of transfer_activity calls create_generic_activity (retry.st is
\* "calling"): the call raises before it awaits when the client holds no token
\* or the body does not encode, else the request is sent and the task awaits
\* the answer
transfer_activity_call(t) ==
    LET c == create_generic_activity(nara_client, t.baby_id, t.payload[1]) IN
    IF c.outcome.tag = "raise" THEN transfer_activity_on_exception(t, c.outcome.exc)
    ELSE t

\* transfer_activity up to its first suspension. result is "pending" while the
\* coroutine awaits; exc is the exception its except clause caught.
transfer_activity_begin(a, baby_id, cfg) ==
    LET t == transform_activity(a) IN
    IF t.tag = "raise"
    THEN [ activity |-> a, baby_id |-> baby_id, payload |-> Null,
           retry |-> NoRetry, result |-> "False", exc |-> t.exc ]
    ELSE IF t.tag = "none"
    THEN [ activity |-> a, baby_id |-> baby_id, payload |-> Null,
           retry |-> NoRetry, result |-> "False", exc |-> NoException ]
    ELSE LET nara_activity == [t.value EXCEPT !.baby_id = baby_id] IN
         IF cfg.dry_run
         THEN [ activity |-> a, baby_id |-> baby_id, payload |-> <<nara_activity>>,
                retry |-> NoRetry, result |-> "True", exc |-> NoException ]
         ELSE LET r == retry_begin(cfg.retry_max_attempts, cfg.retry_delay_seconds,
                                   DefaultBackoffFactor)
                  t0 == [ activity |-> a, baby_id |-> baby_id,
                          payload |-> <<nara_activity>>, retry |-> r,
                          result |-> IF r.st = "returned" THEN "True" ELSE "pending",
                          exc |-> NoException ]
              IN IF r.st = "calling" THEN transfer_activity_call(t0) ELSE t0

\* the backoff sleep of a suspended transfer_activity ends: the next iteration
\* of the retry loop calls create_generic_activity again
transfer_activity_on_wake(t) ==
    transfer_activity_call([t EXCEPT !.retry = retry_on_wake(@)])

\* the except clause's log_error call for a task that caught exc
LogTaskError(ledger, t) ==
    log_error(ledger, Get(t.activity, "id", "unknown"),
              Get(t.activity, "activity_type", "unknown"),
              t.exc, [baby_id |-> t.baby_id])

----------------------------------------------------------------------------
(* transfer.py: DataTransfer.sync_student_activities *)

ZeroStats == [total |-> 0, successful |-> 0, failed |-> 0, skipped |-> 0]

\* UpdateStats with the batch abandoned at its first failure: the results after
\* the first False are never counted
UpdateStats_AbortOnFailure(st, results) ==
    LET falses == {k \in DOMAIN results : results[k] = "False"}
        stop == IF falses = {} THEN Len(results)
                ELSE CHOOSE k \in falses : \A j \in falses : k <= j
        seen == SubSeq(results, 1, stop)
    IN [st EXCEPT !.successful = @ + CountWhere(seen, "True"),
                  !.failed = @ + CountWhere(seen, "False")]

\* "for success in results": True / False / anything else
UpdateStats(st, results) ==
    [st EXCEPT !.successful = @ + CountWhere(results, "True"),
               !.failed = @ + CountWhere(results, "False"),
               !.skipped = @ + (Len(results) - CountWhere(results, "True")
                                             - CountWhere(results, "False"))]

\* a slice one element too long: activities[i:i + batch_size + 1]
Batch_Overlap(acts, i, batch_size) == SubSeq(acts, i + 1, Min(i + batch_size + 1, Len(acts)))

\* activities[i:i + batch_size]
Batch(acts, i, batch_size) == SubSeq(acts, i + 1, Min(i + batch_size, Len(acts)))

Results(ts) == [k \in DOMAIN ts |-> ts[k].result]

\* "for key in total_stats: total_stats[key] += stats[key]"
AddStats(a, b) ==
    [ total |-> a.total + b.total, successful |-> a.successful + b.successful,
      failed |-> a.failed + b.failed, skipped |-> a.skipped + b.skipped ]

----------------------------------------------------------------------------
(* Initial state: a process about to enter main() *)

NoOps ==
    [ login_with_cookie |-> 0, login |-> 0, nara_login |-> 0, get_students |-> 0,
      get_babies |-> 0, get_activities |-> 0, create |-> 0 ]

InitRun ==
    /\ cli_settings = NoSettings
    /\ settings = NoSettings
    /\ pc = "Main"
    /\ bw_session = "none"
    /\ access_token = ""
    /\ students = <<>>
    /\ babies = <<>>
    /\ student_baby_mapping = EmptyMapping
    /\ si = 0
    /\ activities = <<>>
    /\ bi = 0
    /\ tasks = <<>>
    /\ stats = ZeroStats
    /\ total_stats = ZeroStats
    /\ summary = <<>>
    /\ errors = <<>>
    /\ ops = NoOps
    /\ error = NoException
    /\ exit_code = -1

\* the retry specification's variables while the run is modelled
NoRetryCall ==
    /\ rw = NoRetry
    /\ rw_calls = <<>>

Init ==
    /\ env \in Environments
    /\ args \in [dry_run : BOOLEAN]
    /\ InitRun
    /\ NoRetryCall

\* groups of variables the actions leave alone
retryVars == <<rw, rw_calls>>
cfgVars == <<env, args, cli_settings, settings>>
rosterVars == <<students, babies, student_baby_mapping>>
syncVars == <<si, activities, bi, tasks, stats, total_stats, summary, errors>>

\* run()'s "except Exception as e: raise TransferError(...) from e"
FailRun(e) ==
    /\ pc' = "Failed"
    /\ error' = e

----------------------------------------------------------------------------
(* __init__.py: main *)

\* main() up to asyncio.run: the overrides go to main's own Settings object
main ==
    /\ pc = "Main"
    /\ cli_settings' = [get_settings(env) EXCEPT !.dry_run = IF args.dry_run THEN TRUE ELSE @]
    /\ pc' = "Idle"
    /\ UNCHANGED <<retryVars, env, args, settings, bw_session, access_token, rosterVars, syncVars,
                   ops, error, exit_code>>

\* asyncio.run returned, or raised into "except Exception: sys.exit(1)"
main_exit ==
    /\ pc \in {"Done", "Failed"}
    /\ exit_code = -1
    /\ exit_code' = IF pc = "Failed" THEN 1 ELSE 0
    /\ UNCHANGED <<retryVars, cfgVars, pc, bw_session, access_token, rosterVars, syncVars, ops, error>>

----------------------------------------------------------------------------
(* transfer.py: DataTransfer.__init__ and authenticate *)

\* transfer.main(): DataTransfer() loads its settings, run() enters authenticate()
DataTransfer_init ==
    /\ pc = "Idle"
    /\ settings' = get_settings(env)
    /\ pc' = IF settings'.brightwheel_session_cookie # "" THEN "AuthCookie" ELSE "AuthLogin"
    /\ UNCHANGED <<retryVars, env, args, cli_settings, bw_session, access_token, rosterVars, syncVars,
                   ops, error, exit_code>>

\* BrightwheelClient.login_with_cookie: a 401 becomes ValueError, which
\* authenticate catches to fall back; anything else propagates
authenticate_cookie ==
    /\ pc = "AuthCookie"
    /\ ops' = [ops EXCEPT !.login_with_cookie = @ + 1]
    /\ \/ /\ bw_session' = "valid"
          /\ pc' = "AuthNara"
          /\ error' = error
       \/ /\ pc' = "AuthLogin"
          /\ UNCHANGED <<bw_session, error>>
       \/ /\ FailRun(HTTPStatusError(500))
          /\ UNCHANGED bw_session
    /\ UNCHANGED <<retryVars, cfgVars, access_token, rosterVars, syncVars, exit_code>>

\* BrightwheelClient.login: the browser login succeeds or times out
authenticate_login ==
    /\ pc = "AuthLogin"
    /\ ops' = [ops EXCEPT !.login = @ + 1]
    /\ \/ /\ bw_session' = "valid"
          /\ pc' = "AuthNara"
          /\ error' = error
       \/ /\ FailRun(Exc("TimeoutError"))
          /\ UNCHANGED bw_session
    /\ UNCHANGED <<retryVars, cfgVars, access_token, rosterVars, syncVars, exit_code>>

\* the credential test with "or" in place of "and"
HasNaraCredentials_Either(cfg) == cfg.nara_email # "" \/ cfg.nara_password # ""

\* "if self.settings.nara_email and self.settings.nara_password"
HasNaraCredentials(cfg) == cfg.nara_email # "" /\ cfg.nara_password # ""

\* the Nara half of authenticate: login when both credentials are set
authenticate_nara ==
    /\ pc = "AuthNara"
    /\ IF HasNaraCredentials(settings)
       THEN /\ ops' = [ops EXCEPT !.nara_login = @ + 1]
            /\ \/ /\ access_token' = "token"
                  /\ pc' = "FetchStudents"
                  /\ error' = error
               \/ /\ \E e \in ReadFailures : FailRun(e)
                  /\ UNCHANGED access_token
       ELSE /\ pc' = "FetchStudents"
            /\ UNCHANGED <<ops, access_token, error>>
    /\ UNCHANGED <<retryVars, cfgVars, bw_session, rosterVars, syncVars, exit_code>>

\* datetime.utcnow() passes the session's expires_at. Only _check_session reads
\* expires_at, so the expiry is taken where the next step is a source call.
SessionExpires ==
    /\ bw_session = "valid"
    /\ \/ pc = "FetchStudents"
       \/ pc = "SyncNext" /\ si <= Len(students)
                          /\ Get(student_baby_mapping, students[si].id, None) \notin {None, ""}
    /\ bw_session' = "expired"
    /\ UNCHANGED <<retryVars, cfgVars, pc, access_token, rosterVars, syncVars, ops, error, exit_code>>

\* BrightwheelClient._check_session
check_session == IF bw_session = "valid" THEN NoException ELSE Exc("ValueError")

----------------------------------------------------------------------------
(* transfer.py: DataTransfer.run *)

\* get_students and the branch that follows it
run_get_students ==
    /\ pc = "FetchStudents"
    /\ IF check_session # NoException
       THEN /\ FailRun(check_session)
            /\ UNCHANGED <<students, ops, si>>
       ELSE /\ ops' = [ops EXCEPT !.get_students = @ + 1]
            /\ \/ /\ \E e \in ReadFailures : FailRun(e)
                  /\ UNCHANGED <<students, si>>
               \/ /\ \E roster \in StudentRosters :
                        /\ students' = roster
                        /\ pc' = IF roster = <<>> THEN "Done"
                                 ELSE IF access_token # "" THEN "FetchBabies"
                                 ELSE "SyncNext"
                  /\ si' = 1
                  /\ error' = error
    /\ UNCHANGED <<retryVars, cfgVars, bw_session, access_token, babies, student_baby_mapping,
                   activities, bi, tasks, stats, total_stats, summary, errors, exit_code>>

\* NaraClient.get_babies
run_get_babies ==
    /\ pc = "FetchBabies"
    /\ ops' = [ops EXCEPT !.get_babies = @ + 1]
    /\ \/ /\ \E e \in ReadFailures : FailRun(e)
          /\ UNCHANGED babies
       \/ /\ \E roster \in BabyRosters : babies' = roster
          /\ pc' = "Reconciling"
          /\ error' = error
    /\ UNCHANGED <<retryVars, cfgVars, bw_session, access_token, students, student_baby_mapping,
                   syncVars, exit_code>>

\* reconciliation without the early return on an empty mapping
run_reconcile_NoEarlyReturn ==
    /\ pc = "Reconciling"
    /\ LET r == map_students_to_babies(students, babies) IN
       IF r.tag = "raise"
       THEN /\ FailRun(r.exc)
            /\ UNCHANGED student_baby_mapping
       ELSE /\ student_baby_mapping' = r.mapping
            /\ pc' = "SyncNext"
            /\ error' = error
    /\ UNCHANGED <<retryVars, cfgVars, bw_session, access_token, students, babies, syncVars, ops,
                   exit_code>>

\* map_students_to_babies and "if not student_baby_mapping: return"
run_reconcile ==
    /\ pc = "Reconciling"
    /\ LET r == map_students_to_babies(students, babies) IN
       IF r.tag = "raise"
       THEN /\ FailRun(r.exc)
            /\ UNCHANGED student_baby_mapping
       ELSE /\ student_baby_mapping' = r.mapping
            /\ pc' = IF r.mapping = EmptyMapping THEN "Done" ELSE "SyncNext"
            /\ error' = error
    /\ UNCHANGED <<retryVars, cfgVars, bw_session, access_token, students, babies, syncVars, ops,
                   exit_code>>

\* a student without baby_id ends the student loop ("break" for "continue")
run_skip_student_Break ==
    /\ pc = "SyncNext"
    /\ si <= Len(students)
    /\ Get(student_baby_mapping, students[si].id, None) \in {None, ""}
    /\ si' = Len(students) + 1
    /\ UNCHANGED <<retryVars, cfgVars, pc, bw_session, access_token, rosterVars, activities, bi, tasks,
                   stats, total_stats, summary, errors, ops, error, exit_code>>

\* "for student in students": "if not baby_id: continue" skips the student whose
\* mapping.get(student.id) is None (no entry) or the empty string
run_skip_student ==
    /\ pc = "SyncNext"
    /\ si <= Len(students)
    /\ Get(student_baby_mapping, students[si].id, None) \in {None, ""}
    /\ si' = si + 1
    /\ UNCHANGED <<retryVars, cfgVars, pc, bw_session, access_token, rosterVars, activities, bi, tasks,
                   stats, total_stats, summary, errors, ops, error, exit_code, rw, rw_calls>>

\* sync_student_activities up to the batch loop: get_activities
sync_get_activities ==
    /\ pc = "SyncNext"
    /\ si <= Len(students)
    /\ Get(student_baby_mapping, students[si].id, None) \notin {None, ""}
    /\ IF check_session # NoException
       THEN /\ FailRun(check_session)
            /\ UNCHANGED <<ops, activities, stats, bi>>
       ELSE /\ ops' = [ops EXCEPT !.get_activities = @ + 1]
            /\ \/ /\ \E e \in ReadFailures : FailRun(e)
                  /\ UNCHANGED <<activities, stats, bi>>
               \/ /\ \E acts \in ActivityLists :
                        /\ activities' = acts
                        /\ stats' = [ZeroStats EXCEPT !.total = Len(acts)]
                  /\ bi' = 0
                  /\ pc' = "Batching"
                  /\ error' = error
    /\ UNCHANGED <<retryVars, cfgVars, bw_session, access_token, rosterVars, si, tasks, total_stats,
                   summary, errors, exit_code>>

\* a task of the gather whose coroutine has not begun to run
NotBegun(a, baby_id) ==
    [ activity |-> a, baby_id |-> baby_id, payload |-> Null,
      retry |-> NoRetry, result |-> "pending", exc |-> NoException ]

\* the coroutine of task t has run to its first suspension or to its end
HasBegun(t) == t # NotBegun(t.activity, t.baby_id)

\* "tasks = [self.transfer_activity(activity, baby_id) for activity in batch]"
\* and the call of asyncio.gather(*tasks): a task is made of every coroutine and
\* its first step is scheduled; none has run when the caller suspends
gather_start(batch, baby_id) ==
    [k \in DOMAIN batch |-> NotBegun(batch[k], baby_id)]

\* one iteration of the batch loop up to "await asyncio.gather(*tasks)": the
\* tasks of the batch are made and the caller suspends
sync_launch_batch ==
    /\ pc = "Batching"
    /\ bi < Len(activities)
    /\ tasks' = gather_start(Batch(activities, bi, settings.batch_size),
                             student_baby_mapping[students[si].id])
    /\ pc' = "Gathering"
    /\ UNCHANGED <<retryVars, cfgVars, bw_session, access_token, rosterVars, si, activities, bi, stats,
                   total_stats, summary, errors, ops, error, exit_code>>

\* the sum of the numbers of s
RECURSIVE SumSeq(_)
SumSeq(s) == IF s = <<>> THEN 0 ELSE Head(s) + SumSeq(Tail(s))

\* the time, counted from the start of the gather, at which the sleep of a
\* suspended task ends: asyncio.sleep(delay) sets a timer delay seconds ahead,
\* and the task has run without waiting except in its sleeps
Deadline(t) == SumSeq(t.retry.sleeps)

\* the tasks suspended in asyncio.sleep
Sleeping(ts) == {k \in DOMAIN ts : ts[k].retry.st = "sleeping"}

\* the tasks whose first step is still queued
Queued(ts) == {k \in DOMAIN ts : ~HasBegun(ts[k])}

\* the event loop resumes the sleeper whose timer is due first; the tasks of a
\* batch sleep the same delays, so timers due together were set in the start
\* order of the tasks and are run in that order
NextToWake(ts) ==
    CHOOSE k \in Sleeping(ts) :
        \A j \in Sleeping(ts) :
            \/ Deadline(ts[k]) < Deadline(ts[j])
            \/ Deadline(ts[k]) = Deadline(ts[j]) /\ k <= j

\* the event loop has no callback of the gather to run
NoCallback == [kind |-> "none", task |-> 0]

\* the transfers awaited one after the other: a task begins only when no
\* earlier task is left sleeping
NextToRun_Sequential(ts) ==
    IF Sleeping(ts) # {} THEN [kind |-> "wake", task |-> NextToWake(ts)]
    ELSE IF Queued(ts) # {}
    THEN [kind |-> "begin", task |-> CHOOSE k \in Queued(ts) : \A j \in Queued(ts) : k <= j]
    ELSE NoCallback

\* the callback of the gather that the event loop runs next: the first steps of
\* the tasks were queued by gather in list order and run in that order before
\* any timer set by one of them is due; then the sleepers are resumed as their
\* timers fall due
NextToRun(ts) ==
    IF Queued(ts) # {}
    THEN [kind |-> "begin", task |-> CHOOSE k \in Queued(ts) : \A j \in Queued(ts) : k <= j]
    ELSE IF Sleeping(ts) # {} THEN [kind |-> "wake", task |-> NextToWake(ts)]
    ELSE NoCallback

\* the first step of task k: transfer_activity runs to its first suspension or
\* to its end, makes its first create call when it has one to make, and logs
\* what its except clause catches
task_begins(k) ==
    /\ pc = "Gathering"
    /\ NextToRun(tasks) = [kind |-> "begin", task |-> k]
    /\ LET t == transfer_activity_begin(tasks[k].activity, tasks[k].baby_id, settings) IN
       /\ tasks' = [tasks EXCEPT ![k] = t]
       /\ errors' = IF t.exc # NoException THEN LogTaskError(errors, t) ELSE errors
       /\ ops' = [ops EXCEPT !.create = @ + (IF t.retry.calls > 0 THEN 1 ELSE 0)]
    /\ UNCHANGED <<retryVars, cfgVars, pc, bw_session, access_token, rosterVars, si, activities, bi,
                   stats, total_stats, summary, error, exit_code>>

\* the backoff sleep of task k ends and the task runs to its next suspension or
\* to its end: it calls create again, and logs what it catches when it fails
task_wakes(k) ==
    /\ pc = "Gathering"
    /\ NextToRun(tasks) = [kind |-> "wake", task |-> k]
    /\ LET t == transfer_activity_on_wake(tasks[k]) IN
       /\ tasks' = [tasks EXCEPT ![k] = t]
       /\ errors' = IF t.result = "False" THEN LogTaskError(errors, t) ELSE errors
    /\ ops' = [ops EXCEPT !.create = @ + 1]
    /\ UNCHANGED <<retryVars, cfgVars, pc, bw_session, access_token, rosterVars, si, activities, bi,
                   stats, total_stats, summary, error, exit_code>>

\* a gather that returns as soon as one task is done
sync_collect_batch_Early ==
    /\ pc = "Gathering"
    /\ \E k \in DOMAIN tasks : tasks[k].result # "pending"
    /\ stats' = UpdateStats(stats, Results(tasks))
    /\ bi' = bi + settings.batch_size
    /\ tasks' = <<>>
    /\ pc' = "Batching"
    /\ UNCHANGED <<retryVars, cfgVars, bw_session, access_token, rosterVars, si, activities,
                   total_stats, summary, errors, ops, error, exit_code>>

\* a gather that returns only when every task has succeeded
sync_collect_batch_AllSucceeded ==
    /\ pc = "Gathering"
    /\ \A k \in DOMAIN tasks : tasks[k].result = "True"
    /\ stats' = UpdateStats(stats, Results(tasks))
    /\ bi' = bi + settings.batch_size
    /\ tasks' = <<>>
    /\ pc' = "Batching"
    /\ UNCHANGED <<retryVars, cfgVars, bw_session, access_token, rosterVars, si, activities,
                   total_stats, summary, errors, ops, error, exit_code>>

\* asyncio.gather returns once every task is done; the statistics are updated
sync_collect_batch ==
    /\ pc = "Gathering"
    /\ \A k \in DOMAIN tasks : tasks[k].result # "pending"
    /\ stats' = UpdateStats(stats, Results(tasks))
    /\ bi' = bi + settings.batch_size
    /\ tasks' = <<>>
    /\ pc' = "Batching"
    /\ UNCHANGED <<retryVars, cfgVars, bw_session, access_token, rosterVars, si, activities,
                   total_stats, summary, errors, ops, error, exit_code>>

\* sync_student_activities returns; run() adds stats to total_stats
sync_return ==
    /\ pc = "Batching"
    /\ bi >= Len(activities)
    /\ total_stats' = AddStats(total_stats, stats)
    /\ si' = si + 1
    /\ pc' = "SyncNext"
    /\ UNCHANGED <<retryVars, cfgVars, bw_session, access_token, rosterVars, activities, bi, tasks,
                   stats, summary, errors, ops, error, exit_code>>

\* the summary logged without waiting for the student loop to end
run_summarize_Early ==
    /\ pc = "SyncNext"
    /\ summary' = <<total_stats>>
    /\ pc' = "Done"
    /\ UNCHANGED <<retryVars, cfgVars, bw_session, access_token, rosterVars, si, activities, bi, tasks,
                   stats, total_stats, errors, ops, error, exit_code>>

\* the student loop is over: the summary is logged and run() returns
run_summarize ==
    /\ pc = "SyncNext"
    /\ si > Len(students)
    /\ summary' = <<total_stats>>
    /\ pc' = "Done"
    /\ UNCHANGED <<retryVars, cfgVars, bw_session, access_token, rosterVars, si, activities, bi, tasks,
                   stats, total_stats, errors, ops, error, exit_code>>

Next ==
    \/ main
    \/ DataTransfer_init
    \/ authenticate_cookie
    \/ authenticate_login
    \/ authenticate_nara
    \/ SessionExpires
    \/ run_get_students
    \/ run_get_babies
    \/ run_reconcile
    \/ run_skip_student
    \/ sync_get_activities
    \/ sync_launch_batch
    \/ \E k \in DOMAIN tasks : task_begins(k)
    \/ \E k \in DOMAIN tasks : task_wakes(k)
    \/ sync_collect_batch
    \/ sync_return
    \/ run_summarize
    \/ main_exit

Spec == Init /\ [][Next]_vars

----------------------------------------------------------------------------
(* Specification of retry_with_backoff taken alone: Init draws its arguments, *)
(* the actions are func() returning, func() raising and the sleep ending.    *)

runVars == <<env, args, cli_settings, settings, pc, bw_session, access_token,
             students, babies, student_baby_mapping, si, activities, bi, tasks,
             stats, total_stats, summary, errors, ops, error, exit_code>>

\* an environment that sets every credential and nothing else, so that Settings
\* takes its defaults: batch_size 50, retry_max_attempts 3, retry_delay_seconds
\* 1.0, dry_run False
DefaultEnv ==
    [ BRIGHTWHEEL_SESSION_COOKIE |-> "cookie",
      NARA |-> <<"user@example.com", "secret">>,
      BATCH_SIZE |-> 50,
      RETRY_MAX_ATTEMPTS |-> 3,
      RETRY_DELAY_SECONDS |-> 1,
      DRY_RUN |-> FALSE ]

\* max_retries, initial_delay and backoff_factor arguments explored
RetryMaxRetries == -1..MaxRetries
RetryInitialDelays == {1, 3}
RetryBackoffFactors == {2, 3}

InitRetry ==
    /\ env = DefaultEnv
    /\ args = [dry_run |-> FALSE]
    /\ InitRun
    /\ \E m \in RetryMaxRetries : \E d \in RetryInitialDelays : \E f \in RetryBackoffFactors :
          rw = retry_begin(m, d, f)
    /\ rw_calls = <<>>

retry_func_returns ==
    /\ rw.st = "calling"
    /\ rw' = retry_on_return(rw)
    /\ rw_calls' = Append(rw_calls, NoException)
    /\ UNCHANGED runVars

retry_func_raises(e) ==
    /\ rw.st = "calling"
    /\ rw' = retry_on_exception(rw, e)
    /\ rw_calls' = Append(rw_calls, e)
    /\ UNCHANGED runVars

retry_sleep_ends ==
    /\ rw.st = "sleeping"
    /\ rw' = retry_on_wake(rw)
    /\ UNCHANGED <<runVars, rw_calls>>

NextRetry ==
    \/ retry_func_returns
    \/ \E e \in FuncFailures : retry_func_raises(e)
    \/ retry_sleep_ends

SpecRetry == InitRetry /\ [][NextRetry]_vars

----------------------------------------------------------------------------
(* Specification of map_students_to_babies taken alone: Init draws the two   *)
(* rosters, the action is run()'s reconciliation step.                       *)

StudentIds == <<"s1", "s2", "s3", "s4">>
BabyIds == <<"b1", "b2", "b3", "b4">>

\* students (without id) the rosters are drawn from
StudentUniverse ==
    { [first_name |-> n, day |-> d] : n \in {Str_Ava, Str_Ben}, d \in {1, 2} }

\* babies (without id) the rosters are drawn from
BabyUniverse ==
    { [name |-> Str_AvaSmith, day |-> 1, second |-> 3600],
      [name |-> Str_avaJones, day |-> 1, second |-> 0],
      [name |-> Str_AvaLee, day |-> 2, second |-> 0],
      [name |-> Str_BenKim, day |-> 1, second |-> 0],
      [name |-> Str_Blank, day |-> 1, second |-> 0],
      [name |-> Str_Empty, day |-> 2, second |-> 0] }

\* rosters of at most MaxRoster entities; ids are unique within a roster
MapStudentRosters ==
    { [i \in DOMAIN r |-> Student(StudentIds[i], r[i].first_name, r[i].day)] :
        r \in SeqUpTo(StudentUniverse, MaxRoster) }

MapBabyRosters ==
    { [j \in DOMAIN r |-> Baby(BabyIds[j], r[j].name, r[j].day, r[j].second)] :
        r \in SeqUpTo(BabyUniverse, MaxRoster) }

InitMap ==
    /\ env = DefaultEnv
    /\ args = [dry_run |-> FALSE]
    /\ cli_settings = get_settings(env)
    /\ settings = get_settings(env)
    /\ pc = "Reconciling"
    /\ bw_session = "valid"
    /\ access_token = "token"
    /\ students \in MapStudentRosters
    /\ babies \in MapBabyRosters
    /\ student_baby_mapping = EmptyMapping
    /\ si = 1
    /\ activities = <<>>
    /\ bi = 0
    /\ tasks = <<>>
    /\ stats = ZeroStats
    /\ total_stats = ZeroStats
    /\ summary = <<>>
    /\ errors = <<>>
    /\ ops = [NoOps EXCEPT !.login_with_cookie = 1, !.nara_login = 1,
                           !.get_students = 1, !.get_babies = 1]
    /\ error = NoException
    /\ exit_code = -1
    /\ NoRetryCall

NextMap == run_reconcile

SpecMap == InitMap /\ [][NextMap]_vars

----------------------------------------------------------------------------
(* Specification of the transform of one activity: Init draws the activity   *)
(* dict and the dry_run flag, the actions are one batch of                   *)
(* sync_student_activities holding that activity.                            *)

\* the kinds of ActivityType without a transformer, an unrecognized kind and None
UnsupportedKinds == {"mood", "incident", "medication", "note", "potty", "unknown", None}

\* a key that is absent, or present with one of the values vals
Field(key, vals) == {<<>>} \cup {key :> v : v \in vals}

\* activity dicts over the keys the transformers read
XformActivities ==
    { ("id" :> "a1") @@ kind @@ ts @@ amount @@ temp @@ st @@ en @@ dur :
        kind \in Field("activity_type", SupportedKinds \cup UnsupportedKinds),
        ts \in Field("timestamp", {Naive(28800), NotIso}),
        amount \in Field("amount_oz", {Null, Num(4)}),
        temp \in Field("temperature_f", {Null, Num(1004)}),
        st \in Field("start_time", {Naive(28800), Aware(32400, 3600)}),
        en \in Field("end_time", {Null, Num(EmptyString), Num(Naive(34259)),
                                  Num(Aware(34259, 0))}),
        dur \in Field("duration_minutes", {Num(0), Num(45)}) }

InitXform ==
    /\ \E dry \in BOOLEAN :
          env = [DefaultEnv EXCEPT !.BATCH_SIZE = 1, !.RETRY_MAX_ATTEMPTS = 0, !.DRY_RUN = dry]
    /\ args = [dry_run |-> FALSE]
    /\ cli_settings = get_settings(env)
    /\ settings = get_settings(env)
    /\ pc = "Batching"
    /\ bw_session = "valid"
    /\ access_token = "token"
    /\ students = << Student("s1", Str_Ava, 1) >>
    /\ babies = << Baby("b1", Str_AvaSmith, 1, 3600) >>
    /\ student_baby_mapping = ("s1" :> "b1")
    /\ si = 1
    /\ \E a \in XformActivities : activities = <<a>>
    /\ bi = 0
    /\ tasks = <<>>
    /\ stats = [ZeroStats EXCEPT !.total = 1]
    /\ total_stats = ZeroStats
    /\ summary = <<>>
    /\ errors = <<>>
    /\ ops = [NoOps EXCEPT !.login_with_cookie = 1, !.nara_login = 1, !.get_students = 1,
                           !.get_babies = 1, !.get_activities = 1]
    /\ error = NoException
    /\ exit_code = -1
    /\ NoRetryCall

NextXform ==
    \/ sync_launch_batch
    \/ \E k \in DOMAIN tasks : task_begins(k)
    \/ sync_collect_batch

SpecXform == InitXform /\ [][NextXform]_vars

----------------------------------------------------------------------------
(* Specification of the ErrorLogger taken alone: the ledger starts empty, the *)
(* actions are its two methods that change it.                               *)

\* the ledger is explored up to this many entries
MaxLedger == 3

InitLedger ==
    /\ env = DefaultEnv
    /\ args = [dry_run |-> FALSE]
    /\ InitRun
    /\ NoRetryCall

ledger_log_error(a, e, baby_id) ==
    /\ Len(errors) < MaxLedger
    /\ errors' = log_error(errors, Get(a, "id", "unknown"),
                           Get(a, "activity_type", "unknown"), e, [baby_id |-> baby_id])
    /\ UNCHANGED <<retryVars, cfgVars, pc, bw_session, access_token, rosterVars, si, activities,
                   bi, tasks, stats, total_stats, summary, ops, error, exit_code>>

ledger_clear_errors ==
    /\ errors' = clear_errors(errors)
    /\ UNCHANGED <<retryVars, cfgVars, pc, bw_session, access_token, rosterVars, si, activities,
                   bi, tasks, stats, total_stats, summary, ops, error, exit_code>>

NextLedger ==
    \/ \E a \in RunActivities : \E e \in FuncFailures : \E b \in {"b1", "b2"} :
          ledger_log_error(a, e, b)
    \/ ledger_clear_errors

SpecLedger == InitLedger /\ [][NextLedger]_vars

----------------------------------------------------------------------------
(* Specification of a run that keeps being scheduled: the whole run with a   *)
(* retry count >= 0, under the assumption that the event loop keeps running, *)
(* every remote call is answered (with a response or an error) and every     *)
(* sleep ends, i.e. a step that stays possible is eventually taken.          *)

\* (batch_size, retry_max_attempts) pairs of the terminating runs: every batch
\* size and every retry count >= 0 occur, retries together with concurrent batches
LiveConfigs ==
    { c \in BatchSizes \X RetryCounts : c[2] >= 0 /\ (c[2] > 0 <=> c[1] > 1) }

\* a full run: session cookie and target credentials set, writes enabled
InitLive ==
    /\ env \in { e \in Environments : /\ <<e.BATCH_SIZE, e.RETRY_MAX_ATTEMPTS>> \in LiveConfigs
                                      /\ e.BRIGHTWHEEL_SESSION_COOKIE # ""
                                      /\ e.NARA = <<"user@example.com", "secret">>
                                      /\ ~e.DRY_RUN }
    /\ args = [dry_run |-> FALSE]
    /\ InitRun
    /\ NoRetryCall

SpecLive == InitLive /\ [][Next]_vars /\ WF_vars(Next)

----------------------------------------------------------------------------
(* Claims *)

\* the run has constructed its DataTransfer (settings is loaded)
Constructed == pc \notin {"Main", "Idle"}

\* the activities of the current student whose batches have been collected
Processed == SubSeq(activities, 1, Min(bi, Len(activities)))

\* the number of positions of s whose activity kind is in (or not in) SupportedKinds
RECURSIVE CountKinds(_, _)
CountKinds(s, supported) ==
    IF s = <<>> THEN 0
    ELSE (IF (Get(Head(s), "activity_type", None) \in SupportedKinds) = supported THEN 1 ELSE 0)
         + CountKinds(Tail(s), supported)

\* the outcome of a finished task taken alone: it produced a payload and either
\* nothing had to be sent or its own create call returned
OwnSuccess(t) == t.payload # Null /\ (settings.dry_run \/ t.retry.st = "returned")

\* C1 (batch isolation): whatever subset of a batch fails, the gather ends only by
\* returning to the batch loop, never by failing the run; by then every task of
\* the batch has finished, the batch holds every activity of its slice, and the
\* counters grow by one per task, each task counted by its own outcome.
C1_BatchIsolation ==
    [][ (pc = "Gathering" /\ pc' # "Gathering") =>
          /\ pc' = "Batching"
          /\ error' = NoException
          /\ Len(tasks) = Len(Batch(activities, bi, settings.batch_size))
          /\ \A k \in DOMAIN tasks : tasks[k].result # "pending"
          /\ stats'.successful =
                stats.successful + Cardinality({k \in DOMAIN tasks : OwnSuccess(tasks[k])})
          /\ stats'.failed + stats'.skipped =
                stats.failed + stats.skipped
                + Cardinality({k \in DOMAIN tasks : ~OwnSuccess(tasks[k])}) ]_vars

\* a collected batch of two supported activities: the first failed for good in
\* its transform, the second was still processed and counted successful
C1_Witness ==
    /\ pc = "Batching"
    /\ settings.batch_size = 2
    /\ activities = <<Act_BottleNull, Act_Diaper>>
    /\ bi = 2
    /\ stats.successful = 1
    /\ stats.failed = 1
    /\ errors # <<>>

\* C2 (dry run): with dry_run set no create call is issued, and after each batch
\* every supported-kind activity processed so far is counted successful.
C2_DryRunAllSupportedSuccessful ==
    (Constructed /\ settings.dry_run) =>
        /\ ops.create = 0
        /\ (pc = "Batching" => stats.successful = CountKinds(Processed, TRUE))

\* C3 (--dry-run): when the command line asks for a dry run, the orchestrator's
\* settings say dry run and no create call is made, whatever the environment says.
C3_CliDryRunHonoured ==
    (args.dry_run /\ Constructed) => (settings.dry_run /\ ops.create = 0)

\* the target credentials are not both configured
TargetCredentialsAbsent ==
    Constructed /\ (settings.nara_email = "" \/ settings.nara_password = "")

\* C4 (read-only mode): without target credentials no login, roster fetch or
\* create call reaches the target; the source is still authenticated against and
\* its roster fetched; the run can fail only in a source call made before the
\* roster is held, and otherwise ends normally with an all-zero summary.
C4_ReadOnlyMode ==
    TargetCredentialsAbsent =>
        /\ ops.nara_login = 0 /\ ops.get_babies = 0 /\ ops.create = 0
        /\ access_token = ""
        /\ (pc \notin {"AuthCookie", "AuthLogin"} => ops.login_with_cookie + ops.login >= 1)
        /\ (pc \in {"SyncNext", "Done"} => ops.get_students = 1 /\ bw_session # "none")
        /\ (pc = "Failed" => students = <<>> /\ ops.get_activities = 0)
        /\ (pc = "Done" /\ students # <<>> => summary = <<ZeroStats>>)
        /\ (pc = "Done" /\ exit_code # -1 => exit_code = 0)

\* a read-only run that fetched a roster and ended normally
C4_Witness ==
    /\ TargetCredentialsAbsent
    /\ settings.nara_email # ""
    /\ pc = "Done"
    /\ students # <<>>
    /\ ops.get_students = 1
    /\ summary # <<>>
    /\ exit_code = 0

\* the submission of activity a is attempted and uses up its retries: a is
\* transformed, the run writes, and the retry loop makes at least one call
Exhausts(a) ==
    /\ transform_activity(a).tag = "ok"
    /\ ~settings.dry_run
    /\ settings.retry_max_attempts >= 0

\* C5 (skipped counter): after each batch, skipped is the number of
\* unsupported-kind activities processed and failed is the number of processed
\* activities whose submission exhausted its retries.
C5_UnsupportedCountedSkipped ==
    pc = "Batching" =>
        /\ stats.skipped = CountKinds(Processed, FALSE)
        /\ stats.failed = Cardinality({i \in DOMAIN Processed : Exhausts(Processed[i])})

\* the ledger entry of task t, whose run of attempts ended with an exception
EntryOf(entry, t) ==
    /\ entry.activity_id = t.activity.id
    /\ entry.activity_type = t.activity.activity_type
    /\ entry.error_type = t.retry.last_exception.type
    /\ entry.error = t.retry.last_exception
    /\ entry.context.baby_id = student_baby_mapping[students[si].id]

\* C6 (exhausted retries): the step in which the last attempt of a submission
\* fails (the first step of the task when no retry is configured, else its
\* wake-up from the last backoff sleep) marks the task failed and appends
\* exactly one ledger entry with the activity's id and kind, the error type and
\* the baby id, and leaves the run going; no step fails the run while a batch
\* is in flight, a ledger entry is appended only by a task that catches an
\* exception, and a step that emits the summary has every ledger entry counted
\* as a failed activity.
C6_ExhaustedRetriesRecorded ==
    [][ /\ (pc = "Gathering" => pc' # "Failed")
        /\ (pc' = "Done" /\ summary' # <<>> => Len(errors') <= summary'[1].failed)
        /\ (pc = "Gathering" /\ pc' = "Gathering" =>
               Len(errors') = Len(errors)
                 + Cardinality({k \in DOMAIN tasks : /\ tasks[k].exc = NoException
                                                     /\ tasks'[k].exc # NoException}))
        /\ (pc = "Batching" /\ pc' = "Gathering" => errors' = errors /\ error' = NoException)
        /\ \A k \in DOMAIN tasks :
             (pc = "Gathering" /\ tasks[k].retry.st # "raised"
              /\ k \in DOMAIN tasks' /\ tasks'[k].retry.st = "raised") =>
                /\ tasks'[k].result = "False"
                /\ tasks'[k].retry.calls = tasks'[k].retry.max_retries + 1
                /\ pc' = "Gathering"
                /\ error' = NoException
                /\ Len(errors') = Len(errors) + 1
                /\ SubSeq(errors', 1, Len(errors)) = errors
                /\ EntryOf(errors'[Len(errors')], tasks'[k]) ]_vars

\* a run with one retry configured in which both attempts to submit a diaper
\* change failed, that logged the failure and still reached its summary and a
\* zero exit status
C6_Witness ==
    /\ pc = "Done"
    /\ summary # <<>>
    /\ settings.retry_max_attempts = 1
    /\ ops.create >= 2
    /\ \E i \in DOMAIN errors : /\ errors[i].activity_type = "diaper"
                                 /\ errors[i].error_type = "TypeError"
                                 /\ errors[i].context.baby_id # ""
    /\ summary[1].failed >= 1
    /\ exit_code = 0

Last(s) == s[Len(s)]

\* C7 (retry bound): for max_retries = m >= 0 the operation is invoked at most
\* m + 1 times; only the last invocation can have succeeded, and the call
\* returns exactly when it has; the call raises exactly when m + 1 invocations
\* have raised, and what it raises is the exception of the last one.
C7_RetryBound ==
    rw.max_retries >= 0 /\ rw.st # "unused" =>
        /\ rw.calls <= rw.max_retries + 1
        /\ rw.calls = Len(rw_calls) + (IF rw.st = "calling" THEN 1 ELSE 0)
        /\ \A i \in 1..(Len(rw_calls) - 1) : rw_calls[i] # NoException
        /\ (rw.st = "returned" <=> (rw_calls # <<>> /\ Last(rw_calls) = NoException))
        /\ (rw.st = "raised" <=>
               (Len(rw_calls) = rw.max_retries + 1 /\ Last(rw_calls) # NoException))
        /\ (rw.st = "raised" => rw.last_exception = Last(rw_calls))

\* three invocations with max_retries = 2, all raising, the last exception not
\* being the first
C7_Witness ==
    /\ rw.max_retries = 2
    /\ rw.st = "raised"
    /\ Len(rw_calls) = 3
    /\ rw_calls[1] # rw_calls[3]

\* C8 (authentication failures abort): a 401 answered to any call fails the run;
\* it is never held by a task that goes on, nor entered in the ledger as a
\* per-activity failure; and once the session cookie was rejected no further
\* login is made in a run that goes on.
C8_AuthFailureAborts ==
    /\ (error.status = 401 => pc = "Failed")
    /\ \A k \in DOMAIN tasks :
          tasks[k].retry.last_exception.status = 401 => pc = "Failed"
    /\ \A i \in DOMAIN errors : errors[i].error.status # 401
    /\ (ops.login_with_cookie >= 1 /\ ops.login >= 1 => pc = "Failed")

\* the target roster was fetched and reconciliation mapped no student
UnmappableRoster ==
    /\ ops.get_babies = 1
    /\ pc \notin {"FetchBabies", "Reconciling"}
    /\ error = NoException
    /\ student_baby_mapping = EmptyMapping

\* C9 (run-level failures): an exception of authentication or of a roster fetch,
\* and a roster of which nothing could be mapped, each end the run Failed, and a
\* Failed run exits with status 1.
C9_RunLevelFailuresRaise ==
    /\ (error # NoException => pc = "Failed")
    /\ (pc = "Failed" /\ exit_code # -1 => exit_code = 1)
    /\ (UnmappableRoster => pc = "Failed")

\* the claim's matching rule, stated on the rosters: the target has a first name
\* token, it equals the source first name up to case, and the calendar dates agree
Qualifies(student, baby) ==
    /\ Split(baby.name) # <<>>
    /\ Lower(Split(baby.name)[1]) = Lower(student.first_name)
    /\ student.birthdate.day = baby.birth_date.day

Qualifying(student) == {j \in DOMAIN babies : Qualifies(student, babies[j])}

Minimum(S) == CHOOSE x \in S : \A y \in S : x <= y

\* every student with a qualifying baby is mapped to the qualifying baby earliest
\* in the target roster, and a student with none has no entry
FirstMatchMapping ==
    \A i \in DOMAIN students :
        IF Qualifying(students[i]) = {}
        THEN students[i].id \notin DOMAIN student_baby_mapping
        ELSE /\ students[i].id \in DOMAIN student_baby_mapping
             /\ student_baby_mapping[students[i].id]
                    = babies[Minimum(Qualifying(students[i]))].id

\* C10 (first match wins): once reconciliation has run on the two rosters, each
\* student with a qualifying baby is mapped to the qualifying baby earliest in
\* the target roster, and a student with none has no entry.
C10_FirstMatchWins == (pc # "Reconciling" /\ ops.get_babies = 1) => FirstMatchMapping

\* a reconciled roster in which one student has two qualifying babies, the later
\* one differing from the chosen one, and another student has none
C10_Witness ==
    /\ pc = "SyncNext"
    /\ \E i \in DOMAIN students :
          /\ Cardinality(Qualifying(students[i])) >= 2
          /\ student_baby_mapping[students[i].id] = babies[1].id
    /\ \E i \in DOMAIN students : Qualifying(students[i]) = {}

\* C11 (one-to-one): reconcile never maps two distinct source ids to the same
\* target id.
C11_MappingOneToOne ==
    \A s \in DOMAIN student_baby_mapping : \A t \in DOMAIN student_baby_mapping :
        s # t => student_baby_mapping[s] # student_baby_mapping[t]

Ids(roster) == {roster[i].id : i \in DOMAIN roster}

\* C12 (mapping refers to the rosters, read-only afterwards): in every step the
\* mapping's source ids are ids of the source roster and its target ids are ids
\* of the target roster; only the reconciliation step changes the mapping, and
\* the rosters it was built from do not change after they are fetched.
C12_MappingWithinRosters ==
    [][ /\ DOMAIN student_baby_mapping' \subseteq Ids(students')
        /\ \A s \in DOMAIN student_baby_mapping' :
              student_baby_mapping'[s] \in Ids(babies')
        /\ (pc # "Reconciling" => student_baby_mapping' = student_baby_mapping)
        /\ (pc # "FetchStudents" => students' = students)
        /\ (pc # "FetchBabies" => babies' = babies) ]_vars

\* a run that mapped two students, synced them and emitted its summary
C12_Witness ==
    /\ pc = "Done"
    /\ summary # <<>>
    /\ Cardinality(DOMAIN student_baby_mapping) = 2
    /\ ops.get_activities = 2

\* the kind transform_activity reads from the activity under transform
KindOf(a) == Get(a, "activity_type", None)

\* C13 (unsupported kinds are skipped): for an activity whose kind is mood,
\* incident, medication, note or potty, unrecognized or missing, whatever its
\* other fields hold, transform returns absent without raising, no create call
\* is issued and no ledger entry is appended.
C13_UnsupportedKindSkipped ==
    KindOf(activities[1]) \notin SupportedKinds =>
        /\ transform_activity(activities[1]) = [tag |-> "none"]
        /\ ops.create = 0
        /\ errors = <<>>
        /\ \A k \in DOMAIN tasks :
              /\ tasks[k].payload = Null
              /\ tasks[k].exc = NoException
              /\ tasks[k].retry.st = "unused"
              /\ (HasBegun(tasks[k]) => tasks[k].result = "False")

\* a collected batch, not a dry run, whose activity is a mood without timestamp
\* and with a null amount
C13_Witness ==
    /\ pc = "Batching"
    /\ bi = 1
    /\ ~settings.dry_run
    /\ KindOf(activities[1]) = "mood"
    /\ "timestamp" \notin DOMAIN activities[1]
    /\ "amount_oz" \in DOMAIN activities[1] /\ activities[1]["amount_oz"] = Null
    /\ stats.failed + stats.skipped = 1

\* the activity carries the timestamp every source activity has
HasTimestamp(a) == "timestamp" \in DOMAIN a /\ a["timestamp"].second >= 0

\* C14 (transform is total on supported kinds): for an activity of a supported
\* kind with a timestamp, whatever kind-specific fields are present, absent or
\* null, the transform returns a Target Activity and does not raise, and the
\* task holds a payload once it has run.
C14_TransformTotal ==
    (KindOf(activities[1]) \in SupportedKinds /\ HasTimestamp(activities[1])) =>
        \A k \in DOMAIN tasks :
            HasBegun(tasks[k]) =>
                /\ transform_activity(tasks[k].activity).tag = "ok"
                /\ tasks[k].payload # Null

\* the tasks of ts that have not finished
Pending(ts) == {k \in DOMAIN ts : ts[k].result = "pending"}

\* C15 (batches and entities in sequence): the tasks of a batch are made in
\* one step, which finds no task of an earlier batch left and takes exactly the
\* slice at the batch index; the gather is left only when no task is pending,
\* and the batch index advances then; while a batch is in flight no activity
\* fetch is issued and the entity does not change; the next entity is taken
\* only when every batch of the current one has been collected.
C15_StrictSequence ==
    [][ /\ (pc # "Gathering" => Pending(tasks) = {})
        /\ (pc = "Batching" /\ pc' = "Gathering" =>
              /\ tasks = <<>>
              /\ bi < Len(activities)
              /\ Len(tasks') = Min(settings.batch_size, Len(activities) - bi)
              /\ \A k \in DOMAIN tasks' : tasks'[k].activity = activities[bi + k])
        /\ (ops'.create # ops.create => pc \in {"Batching", "Gathering"} /\ pc' = "Gathering")
        /\ (pc = "Gathering" =>
              /\ si' = si /\ activities' = activities
              /\ ops'.get_activities = ops.get_activities
              /\ (pc' # "Gathering" =>
                    Pending(tasks) = {} /\ pc' = "Batching" /\ bi' = bi + settings.batch_size)
              /\ (pc' = "Gathering" => bi' = bi /\ DOMAIN tasks' = DOMAIN tasks))
        /\ (pc # "FetchStudents" /\ (si' # si \/ ops'.get_activities # ops.get_activities) =>
              /\ tasks = <<>>
              /\ (pc = "SyncNext" \/ (pc = "Batching" /\ bi >= Len(activities)))) ]_vars

\* the second batch of the second entity is in flight
C15_Witness ==
    /\ pc = "Gathering"
    /\ si = 2
    /\ ops.get_activities = 2
    /\ bi = 1
    /\ Pending(tasks) # {}

\* the task k of ts is the only one that differs in ts2
OnlyTaskChanged(ts, ts2, k) ==
    /\ DOMAIN ts2 = DOMAIN ts
    /\ ts2[k] # ts[k]
    /\ \A j \in DOMAIN ts \ {k} : ts2[j] = ts[j]

\* C16 (concurrency within a batch): while a batch is in flight no sleep holds
\* up another task: as long as some task of the batch has not begun, no sleep
\* of the batch has ended, so every task makes its first create call while the
\* tasks before it are in their first sleep; a task that has begun and not
\* finished has made a create call of its own and is suspended in its own
\* backoff sleep; and a step taken while the batch is in flight is the first
\* step of one task or the wake-up of one sleeping task, which leaves every
\* other task, finished, sleeping or not begun, as it was.
C16_ConcurrentWithinBatch ==
    [][ /\ (pc = "Gathering" =>
              /\ Len(tasks) = Min(settings.batch_size, Len(activities) - bi)
              /\ (Queued(tasks) # {} =>
                    \A j \in DOMAIN tasks :
                        tasks[j].retry.calls <= 1 /\ Len(tasks[j].retry.sleeps) <= 1)
              /\ \A k \in Pending(tasks) \ Queued(tasks) :
                    tasks[k].retry.calls >= 1 /\ tasks[k].retry.st = "sleeping")
        /\ (pc = "Gathering" /\ pc' = "Gathering" =>
              \E k \in Pending(tasks) :
                  /\ OnlyTaskChanged(tasks, tasks', k)
                  /\ HasBegun(tasks'[k])
                  /\ ops'.create - ops.create = tasks'[k].retry.calls - tasks[k].retry.calls
                  /\ (HasBegun(tasks[k]) =>
                        tasks'[k].retry.calls = tasks[k].retry.calls + 1)) ]_vars

\* the first task of a batch has made its second call and finished while the
\* second, which made its first call before that, is still in its first sleep
C16_Witness ==
    /\ pc = "Gathering"
    /\ Len(tasks) = 2
    /\ tasks[1].result = "False"
    /\ tasks[1].retry.st = "raised"
    /\ tasks[1].retry.calls = 2
    /\ tasks[2].result = "pending"
    /\ tasks[2].retry.st = "sleeping"
    /\ tasks[2].retry.calls = 1

\* a source operation found the session expired, or get_students was answered 401
SourceAuthLost ==
    \/ bw_session = "expired" /\ error.type = "ValueError"
    \/ /\ error = HTTPStatusError(401)
       /\ ops.get_students = 1 /\ ops.get_babies = 0 /\ students = <<>>

\* C17 (re-authentication): when a source operation finds the session expired or
\* is answered 401, the source is authenticated against again and the run goes
\* on instead of failing.
C17_ReauthenticatesSource ==
    SourceAuthLost => (pc # "Failed" /\ ops.login_with_cookie + ops.login >= 2)

\* C18 (error kind of an expired session): a run that failed in a source
\* operation called with an expired session failed with AuthenticationError.
C18_ExpiredSessionRaisesAuthenticationError ==
    (pc = "Failed" /\ bw_session = "expired") => error.type = "AuthenticationError"

\* C19 (cookie fallback): a run that tried the session cookie cannot fail before
\* interactive login has been tried.
C19_CookieFailureFallsBack ==
    (pc = "Failed" /\ ops.login_with_cookie = 1) => ops.login >= 1

\* the path and body the last create call of task t handed to post()
RequestOf(t) == create_generic_activity(nara_client, t.baby_id, t.payload[1])

\* baby ids a payload may carry before create_generic_activity attaches its own
CarriedBabyIds == {"", "b1", "b2", "b9"}

\* C20 (owning baby id): every create call made for an activity of the current
\* student s has mapping[s] in its path and in its payload, whatever baby id the
\* payload carried before, and attaching the id again changes nothing.
C20_CreateTargetsMappedBaby ==
    \A k \in DOMAIN tasks :
        tasks[k].retry.calls >= 1 =>
            LET owner == student_baby_mapping[students[si].id]
                req == RequestOf(tasks[k])
            IN /\ req.path_baby_id = owner
               /\ req.json.baby_id = owner
               /\ create_generic_activity(nara_client, owner, req.json) = req
               /\ \A b \in CarriedBabyIds :
                     create_generic_activity(nara_client, tasks[k].baby_id,
                                             [tasks[k].payload[1] EXCEPT !.baby_id = b]) = req

\* a create call was made with the second student's activity for the second
\* student's baby
C20_Witness ==
    /\ pc = "Gathering"
    /\ si = 2
    /\ DOMAIN student_baby_mapping = {students[1].id, students[2].id}
    /\ student_baby_mapping[students[1].id] # student_baby_mapping[students[2].id]
    /\ ops.create >= 2
    /\ \E k \in DOMAIN tasks :
          /\ tasks[k].retry.calls >= 1
          /\ RequestOf(tasks[k]).path_baby_id = student_baby_mapping[students[2].id]
          /\ RequestOf(tasks[k]).json.baby_id = student_baby_mapping[students[2].id]

\* the students of the roster that have an entry in the mapping
MappedStudents == {i \in DOMAIN students : students[i].id \in DOMAIN student_baby_mapping}

\* the run is about to log its summary (the student loop is over)
Summarizing == pc = "SyncNext" /\ si > Len(students)

\* the run is about to issue a remote call outside a batch
AboutToCall ==
    \/ pc \in {"AuthCookie", "AuthLogin", "FetchStudents", "FetchBabies"}
    \/ pc = "SyncNext" /\ si \in MappedStudents

\* some step of the run leads to Failed
FailStep == Next /\ pc' = "Failed"

\* C21 (phase order): a roster is fetched only once the source is authenticated
\* (and the target roster only with a token); activities are fetched and writes
\* issued only once reconciliation has produced the mapping in use; the summary
\* is emitted only once the student loop is over and every mapped student's
\* activities were fetched. Failed can be entered from every step about to issue
\* a remote call outside a batch, and not from the step that logs the summary.
C21_PhaseOrder ==
    /\ (ops.get_students >= 1 \/ ops.get_babies >= 1 =>
          /\ ops.login_with_cookie + ops.login >= 1
          /\ bw_session # "none"
          /\ pc \notin {"Main", "Idle", "AuthCookie", "AuthLogin", "AuthNara"})
    /\ (ops.get_babies >= 1 => ops.get_students = 1 /\ access_token # "")
    /\ (ops.get_activities >= 1 \/ ops.create >= 1 =>
          /\ ops.get_students = 1 /\ ops.get_babies = 1
          /\ pc \notin {"FetchStudents", "FetchBabies", "Reconciling"}
          /\ student_baby_mapping # EmptyMapping
          /\ DOMAIN student_baby_mapping \subseteq Ids(students))
    /\ (ops.create >= 1 => ops.get_activities >= 1)
    /\ (summary # <<>> =>
          /\ pc = "Done"
          /\ si > Len(students)
          /\ tasks = <<>>
          /\ ops.get_activities = Cardinality(MappedStudents))
    /\ (AboutToCall => ENABLED FailStep)
    /\ (Summarizing => ~ENABLED FailStep)

\* a summary emitted after two mapped students were synced and a write was issued
C21_Witness ==
    /\ pc = "Done"
    /\ summary # <<>>
    /\ Cardinality(MappedStudents) = 2
    /\ ops.get_activities = 2
    /\ ops.create >= 1

\* C21 as stated: Failed is reachable from Summarizing too. The only step of a
\* run about to log its summary is the one that logs it, so Failed is reachable
\* from there exactly when that step can lead to it.
C21_FailedReachableFromSummarizing == Summarizing => ENABLED FailStep

\* the nap has an end time (present, not null and not the empty string)
HasEndTime(a) == "end_time" \in DOMAIN a /\ Truthy(a["end_time"])

\* the instant a timestamp string denotes: its wall-clock second moved to UTC
\* by the offset it carries (a string without offset is read as UTC)
Denoted(ts) == ts.second - (IF IsNull(ts.utcoffset) THEN 0 ELSE ts.utcoffset[1])

\* C22 (nap duration): the sleep record of a nap with an end time has the whole
\* minutes of (end - start) as duration_minutes, whatever explicit duration the
\* nap carries; without an end time it has the explicit duration_minutes
\* unchanged, and no duration when that is absent too.
C22_NapDuration ==
    \A k \in DOMAIN tasks :
        LET a == tasks[k].activity IN
        (HasBegun(tasks[k]) /\ KindOf(a) = "nap" /\ "start_time" \in DOMAIN a) =>
            /\ tasks[k].payload # Null
            /\ tasks[k].payload[1].duration_minutes =
                  IF HasEndTime(a)
                  THEN Num((Denoted(a["end_time"][1]) - Denoted(a["start_time"])) \div 60)
                  ELSE Get(a, "duration_minutes", Null)

\* b to the power n
RECURSIVE Pow(_, _)
Pow(b, n) == IF n = 0 THEN 1 ELSE b * Pow(b, n - 1)

\* the func() calls of rw that raised
FailedCalls == {i \in DOMAIN rw_calls : rw_calls[i] # NoException}

\* C23 (backoff sleeps): retry_with_backoff has slept once after each failed
\* attempt except a final one, so never before the first attempt, never after a
\* successful one and never after the last failed one; the k-th sleep lasts
\* initial_delay * backoff_factor^(k-1).
C23_BackoffSleeps ==
    rw.st # "unused" =>
        /\ Len(rw.sleeps) = Cardinality(FailedCalls) - (IF rw.st = "raised" THEN 1 ELSE 0)
        /\ (rw_calls = <<>> => rw.sleeps = <<>>)
        /\ (rw.st = "returned" /\ rw_calls # <<>> => Len(rw.sleeps) = Len(rw_calls) - 1)
        /\ (rw.st = "raised" => Len(rw.sleeps) = Len(rw_calls) - 1)
        /\ (rw.st = "sleeping" <=> Len(rw.sleeps) = rw.attempt + 1)
        /\ \A k \in DOMAIN rw.sleeps :
              rw.sleeps[k] = rw.initial_delay * Pow(rw.backoff_factor, k - 1)

\* four failed attempts with initial_delay 3 and backoff_factor 3: three sleeps
C23_Witness ==
    /\ rw.st = "raised"
    /\ Len(rw_calls) = 4
    /\ rw.sleeps = <<3, 9, 27>>

\* C24 (early termination on an empty mapping): once the target was authenticated
\* against and reconciliation has returned an empty mapping, the run is over:
\* no activity was fetched, no write issued, no counters or summary produced,
\* and the process exits normally.
C24_EmptyMappingEndsRun ==
    (access_token # "" /\ UnmappableRoster) =>
        /\ pc = "Done"
        /\ ops.get_activities = 0
        /\ ops.create = 0
        /\ summary = <<>>
        /\ stats = ZeroStats /\ total_stats = ZeroStats
        /\ tasks = <<>>
        /\ exit_code \in {-1, 0}

\* a run with both rosters non-empty, nothing mapped, that has exited
C24_Witness ==
    /\ access_token # ""
    /\ UnmappableRoster
    /\ students # <<>> /\ babies # <<>>
    /\ pc = "Done"
    /\ exit_code = 0

\* the mapped students at roster positions below n
MappedBefore(n) == {i \in MappedStudents : i < n}

\* C25 (unmapped students are skipped): the activity fetches issued are exactly
\* one per mapped student the loop has reached, a batch exists only for a mapped
\* student, the run counters hold at most the activities of the mapped students
\* passed, and when the summary is emitted every mapped student was synced,
\* wherever it stands in the roster.
C25_UnmappedSkipped ==
    /\ (pc = "SyncNext" \/ (pc = "Done" /\ students # <<>>) =>
          ops.get_activities = Cardinality(MappedBefore(si)))
    /\ (pc \in {"Batching", "Gathering"} =>
          /\ si \in MappedStudents
          /\ ops.get_activities = Cardinality(MappedBefore(si + 1)))
    /\ (pc \in {"SyncNext", "Batching", "Gathering", "Done"} =>
          /\ total_stats.total <= MaxActivities * Cardinality(MappedBefore(si))
          /\ ops.create <= (settings.retry_max_attempts + 1) * MaxActivities
                              * Cardinality(MappedBefore(si + 1)))
    /\ (MappedStudents = {} => total_stats = ZeroStats /\ ops.create = 0 /\ errors = <<>>)
    /\ (summary # <<>> => ops.get_activities = Cardinality(MappedStudents))

\* a summary after an unmapped student was passed over and the mapped student
\* that follows it in the roster had its activities transferred
C25_Witness ==
    /\ pc = "Done"
    /\ summary # <<>>
    /\ Len(students) = 2
    /\ MappedStudents = {2}
    /\ ops.get_activities = 1
    /\ summary[1].total >= 1
    /\ ops.create >= 1

\* C26 (successful means created): outside a dry run a task reports success only
\* once its own create call has been issued and has returned, whatever retry
\* count is configured, so the activities counted successful never outnumber
\* the create calls issued.
C26_SuccessMeansCreated ==
    (Constructed /\ ~settings.dry_run) =>
        /\ \A k \in DOMAIN tasks :
              tasks[k].result = "True" =>
                  tasks[k].retry.st = "returned" /\ tasks[k].retry.calls >= 1
        /\ total_stats.successful <= ops.create
        /\ (pc \in {"Batching", "Gathering"} =>
              total_stats.successful + stats.successful <= ops.create)

\* the activities a counter record has classified
Classified(st) == st.successful + st.failed + st.skipped

\* C27 (counters partition the activities): the batches of a sync take the
\* fetched list slice by slice, each activity in exactly one task; after each
\* collected batch the three outcome counters add up to the activities processed
\* so far, and after each student's sync, in the run totals and in the summary
\* total = successful + failed + skipped.
C27_CountersPartition ==
    /\ (pc \in {"Batching", "Gathering"} =>
          /\ stats.total = Len(activities)
          /\ bi % settings.batch_size = 0
          /\ Classified(stats) = Min(bi, Len(activities)))
    /\ (pc = "Gathering" =>
          /\ Len(tasks) = Min(settings.batch_size, Len(activities) - bi)
          /\ \A k \in DOMAIN tasks : tasks[k].activity = activities[bi + k])
    /\ (pc \notin {"Batching", "Gathering"} => stats.total = Classified(stats))
    /\ total_stats.total = Classified(total_stats)
    /\ (summary # <<>> => summary[1] = total_stats)

\* a summary over two students with two activities each, taken one per batch,
\* with successes and failures among them
C27_Witness ==
    /\ pc = "Done"
    /\ summary # <<>>
    /\ settings.batch_size = 1
    /\ summary[1].total = 4
    /\ summary[1].successful >= 1
    /\ summary[1].failed >= 1

\* the invocations of the operation that returned
Successes == {i \in DOMAIN rw_calls : rw_calls[i] = NoException}

\* C28 (no call after success): the retry loop that submits an activity invokes
\* the operation again only after a failed attempt and its backoff sleep; at
\* most one invocation returns, it is the last one, and once it has returned
\* the loop has ended: no step invokes the operation or sleeps again.
C28_NoCreateAfterSuccess ==
    rw.st # "unused" =>
        /\ Cardinality(Successes) <= 1
        /\ \A i \in Successes : i = Len(rw_calls) /\ rw.st = "returned"
        /\ (rw.calls >= 1 =>
              /\ rw.calls = rw.attempt + 1
              /\ \A i \in 1..rw.attempt : rw_calls[i] # NoException /\ i \in DOMAIN rw.sleeps)
        /\ (rw.st = "returned" =>
              /\ rw.calls = Len(rw_calls)
              /\ Len(rw.sleeps) = rw.attempt
              /\ ~ENABLED retry_sleep_ends
              /\ ~ENABLED retry_func_returns
              /\ \A e \in FuncFailures : ~ENABLED retry_func_raises(e))

\* the operation returned at its second invocation, with retries left unused
C28_Witness ==
    /\ rw.st = "returned"
    /\ rw.max_retries >= 2
    /\ Len(rw_calls) = 2
    /\ rw_calls[1] # NoException
    /\ rw_calls[2] = NoException
    /\ Len(rw.sleeps) = 1

\* C29 (reconcile never raises): whatever the two rosters, empty ones and babies
\* with an empty or blank name included, the reconciliation step neither raises
\* nor fails the run; a student without a match is only left out of the mapping.
C29_ReconcileNeverRaises ==
    ops.get_babies = 1 /\ pc # "FetchBabies" =>
        /\ error = NoException
        /\ pc # "Failed"
        /\ (pc # "Reconciling" => DOMAIN student_baby_mapping \subseteq Ids(students))

\* C30 (termination): with batch_size >= 1 and a retry count >= 0, if every
\* remote call is eventually answered and every sleep ends, the run eventually
\* reaches Done or Failed, whichever calls fail.
C30_RunTerminates == <>(pc \in {"Done", "Failed"})

\* a run that ended with its summary after the submissions of a batch had each
\* used up their retry
C30_Witness ==
    /\ pc = "Done"
    /\ summary # <<>>
    /\ settings.retry_max_attempts = 1
    /\ ops.create >= 3
    /\ \E i \in DOMAIN errors : /\ errors[i].activity_type = "diaper"
                                 /\ errors[i].error_type = "TypeError"
    /\ summary[1].failed >= 2

====
